---- MODULE Spec2Model ----
(***************************************************************************)
(* A model of the sequence-backed sets of classes/set.hpp:                 *)
(*   UnorderedSet<_T, _Compare>  - insertion-ordered std::vector _set      *)
(*   OrderedSet<_T, _Compare>    - the same vector kept sorted             *)
(* A std::vector is a TLA+ sequence (index 1 is begin(), Len+1 is end()).  *)
(* The template argument _Compare of UnorderedSet is the first parameter C *)
(* of every operator: "equal_to" is std::equal_to<int>, anything else is   *)
(* ComparatorEqual<int, value_compare>, the base class of OrderedSet.      *)
(***************************************************************************)
EXTENDS Integers, Sequences, FiniteSets, TLC

\* Longest backing vector a mutating operation may produce.
MaxLen == 3

\* Element values are the ints 1..MaxVal.
MaxVal == 5

Values == 1..MaxVal

\* The values used by the programs that make calls without end.
MaxFew == 3

FewValues == 1..MaxFew

\* The two UnorderedSet<int> objects of the model.
Names == {"a", "b"}

\* All vectors of at most n elements of V.
SeqUpTo(V, n) == UNION { [1..k -> V] : k \in 0..n }

-----------------------------------------------------------------------------
(* Comparison predicates *)

\* The order predicate of the OrderedSet under test: ints compared by a key
\* that ignores the low bit state, so 1 and 2 are mutually non-less.
Key(x) == (x + 1) \div 2

value_compare(x, y) == Key(x) < Key(y)

ComparatorEqual(x, y) == ~value_compare(x, y) /\ ~value_compare(y, x)

equal_compare(C, x, y) == IF C = "equal_to" THEN x = y ELSE ComparatorEqual(x, y)

-----------------------------------------------------------------------------
(* std::vector primitives *)

\* vector::erase(position)
vector_erase(s, i) == SubSeq(s, 1, i - 1) \o SubSeq(s, i + 1, Len(s))

\* vector::insert(position, value)
vector_insert(s, i, v) == SubSeq(s, 1, i - 1) \o <<v>> \o SubSeq(s, i, Len(s))

\* The reading of the comment on the copy constructor ("no deep copy is
\* performed, so these are the same Sets"): source and target end up on one
\* storage.
vector_copy_shallow(dst, src) == [data |-> src, shared |-> TRUE]

\* vector copy assignment, _set = s._set: the target gets the elements of
\* the source in storage of its own.
vector_copy(dst, src) == [data |-> src, shared |-> FALSE]

\* A plausible slip: the move copies and leaves the source as it was.
vector_move_keeps(dst, src) == [dst |-> src, src |-> src]

\* vector move assignment, _set = std::move(s._set): the target takes over
\* the storage of the source, which is left empty.
vector_move(dst, src) == [dst |-> src, src |-> <<>>]

-----------------------------------------------------------------------------
(* UnorderedSet *)

RECURSIVE find_from(_, _, _, _)
find_from(C, s, v, it) ==
    IF it > Len(s) THEN Len(s) + 1
    ELSE IF equal_compare(C, s[it], v) THEN it
    ELSE find_from(C, s, v, it + 1)

\* find(value): the first position holding an equivalent value, or end().
find(C, s, v) == find_from(C, s, v, 1)

RECURSIVE count_from(_, _, _, _)
count_from(C, s, v, i) ==
    IF i > Len(s) THEN 0
    ELSE (IF equal_compare(C, s[i], v) THEN 1 ELSE 0) + count_from(C, s, v, i + 1)

count(C, s, v) == count_from(C, s, v, 1)

\* A plausible slip: the membership test is dropped.
insert_always(C, s, v, unique) == Append(s, v)

\* insert(value, unique)
insert(C, s, v, unique) ==
    IF ~unique \/ find(C, s, v) = Len(s) + 1 THEN Append(s, v) ELSE s

RECURSIVE insert_each(_, _, _, _)
insert_each(C, s, list, i) ==
    IF i > Len(list) THEN s
    ELSE insert_each(C, insert(C, s, list[i], TRUE), list, i + 1)

\* UnorderedSet(initializer_list): every value inserted in default mode.
InitList(C, list) == insert_each(C, <<>>, list, 1)

\* An empty set after insert(list[1], unique), insert(list[2], unique), ...
RECURSIVE inserted_from(_, _, _, _, _)
inserted_from(C, s, list, unique, i) ==
    IF i > Len(list) THEN s
    ELSE inserted_from(C, insert(C, s, list[i], unique), list, unique, i + 1)

Inserted(C, list, unique) == inserted_from(C, <<>>, list, unique, 1)

\* contains(s, strict): every element of s has an equivalent in this vector;
\* strict asks the same of the reverse direction.
contains_all(C, this, s) ==
    \A i \in 1..Len(s) : \E k \in 1..Len(this) : equal_compare(C, s[i], this[k])

\* A plausible slip: strict is ignored.
contains_one_way(C, this, s, strict) == contains_all(C, this, s)

contains(C, this, s, strict) ==
    IF strict THEN contains_all(C, this, s) /\ contains_all(C, s, this)
    ELSE contains_all(C, this, s)

\* deepCopy(s): every element of s inserted into an empty set, in default
\* mode.
deepCopy(C, s) == Inserted(C, s, TRUE)

\* contains(value) builds the one-element set and asks contains(set).
contains_value(C, this, v) == contains(C, this, InitList(C, <<v>>), FALSE)

\* A plausible slip: equality by size alone.
operator_eq_size_only(C, this, other) == Len(this) = Len(other)

\* operator==
operator_eq(C, this, other) ==
    IF Len(this) # Len(other) THEN FALSE ELSE contains(C, this, other, TRUE)

\* operator!=
operator_ne(C, this, other) == ~operator_eq(C, this, other)

\* The loop of operator<: the first position where the elements differ
\* decides.
RECURSIVE lt_from(_, _, _)
lt_from(this, s, it) ==
    IF it > Len(this) \/ it > Len(s) THEN FALSE
    ELSE IF this[it] < s[it] THEN TRUE
    ELSE IF this[it] > s[it] THEN FALSE
    ELSE lt_from(this, s, it + 1)

\* A plausible slip: sizes alone decide.
operator_lt_size_only(this, s) == Len(this) < Len(s)

\* operator<
operator_lt(this, s) ==
    IF Len(this) # Len(s) THEN Len(this) < Len(s) ELSE lt_from(this, s, 1)

\* A plausible slip: subseteq answers for equal sets only.
subseteq_equal_only(C, this, s) == operator_eq(C, this, s)

\* subseteq
subseteq(C, this, s) ==
    IF operator_eq(C, this, s) THEN TRUE
    ELSE \A i \in 1..Len(this) : \E k \in 1..Len(s) : equal_compare(C, this[i], s[k])

\* subset
subset(C, this, s) ==
    IF operator_eq(C, this, s) THEN FALSE ELSE subseteq(C, this, s)

\* superseteq
superseteq(C, this, s) ==
    IF operator_eq(C, this, s) THEN TRUE
    ELSE \A i \in 1..Len(s) : \E k \in 1..Len(this) : equal_compare(C, s[i], this[k])

\* One frame of superset: it returns false for equal sets, and otherwise
\* calls superset(s) again.
superset_frame(C, this, s) ==
    IF operator_eq(C, this, s) THEN [returns |-> TRUE, ret |-> FALSE]
    ELSE [returns |-> FALSE, ret |-> FALSE]

\* erase(value, all = false): the first equivalent element goes, if any.
erase_first(C, s, v) ==
    LET it == find(C, s, v)
    IN  IF it # Len(s) + 1
        THEN [set |-> vector_erase(s, it), ret |-> 1, invalid |-> FALSE, past |-> FALSE]
        ELSE [set |-> s, ret |-> 0, invalid |-> FALSE, past |-> FALSE]

\* erase(value, all = true): the loop keeps using `it` after _set.erase(it).
\* With the vector's pointer iterators `it` then names the element that
\* moved into the erased slot and it++ steps over it; after erasing the
\* last element it++ leaves `it` beyond end(), and it != end() never fails
\* again (past).  invalid: an invalidated iterator was used at all.
RECURSIVE erase_all_from(_, _, _, _, _, _)
erase_all_from(C, s, v, it, ret, inv) ==
    IF it = Len(s) + 1 THEN [set |-> s, ret |-> ret, invalid |-> inv, past |-> FALSE]
    ELSE IF it > Len(s) + 1 THEN [set |-> s, ret |-> ret, invalid |-> TRUE, past |-> TRUE]
    ELSE IF equal_compare(C, s[it], v)
         THEN erase_all_from(C, vector_erase(s, it), v, it + 1, ret + 1, TRUE)
         ELSE erase_all_from(C, s, v, it + 1, ret, inv)

\* A plausible slip: erase reports but removes nothing.
erase_nothing(C, s, v, all) == [set |-> s, ret |-> 0, invalid |-> FALSE, past |-> FALSE]

\* erase(value, all)
erase(C, s, v, all) ==
    IF ~all THEN erase_first(C, s, v) ELSE erase_all_from(C, s, v, 1, 0, FALSE)

\* The inner loop of unique(): j runs from i + 1 to end() and the element
\* at j is erased when the iterators i and j are equal.
RECURSIVE unique_inner(_, _, _)
unique_inner(s, i, j) ==
    IF j > Len(s) THEN s
    ELSE IF i = j THEN unique_inner(vector_erase(s, j), i, j + 1)
    ELSE unique_inner(s, i, j + 1)

RECURSIVE unique_outer(_, _)
unique_outer(s, i) ==
    IF i > Len(s) THEN s ELSE unique_outer(unique_inner(s, i, i + 1), i + 1)

\* UnorderedSet::unique()
unordered_unique(C, s) == unique_outer(s, 1)

\* A plausible slip: the union forgets the left operand.
operator_plus_right_only(C, this, s) == insert_each(C, <<>>, s, 1)

\* operator+(set): a copy of this, then every value of s inserted in default mode.
operator_plus(C, this, s) == insert_each(C, this, s, 1)

\* operator+(value)
operator_plus_value(C, this, v) == operator_plus(C, this, InitList(C, <<v>>))

\* operator+=(set).  When s is this very object the range-for reads the
\* vector being inserted into; n is the end() taken when the loop began.
RECURSIVE plus_assign_self(_, _, _, _)
plus_assign_self(C, this, n, i) ==
    IF i > n THEN this
    ELSE plus_assign_self(C, insert(C, this, this[i], TRUE), n, i + 1)

operator_plus_assign(C, this, s, alias) ==
    IF alias THEN plus_assign_self(C, this, Len(this), 1)
    ELSE insert_each(C, this, s, 1)

RECURSIVE erase_each(_, _, _, _)
erase_each(C, ret, s, i) ==
    IF i > Len(s) THEN ret
    ELSE erase_each(C, erase(C, ret, s[i], FALSE).set, s, i + 1)

\* operator-(set): a copy of this, then erase(v) for every v of s.
operator_minus(C, this, s) == erase_each(C, this, s, 1)

\* A range-for over a vector that its body erases from.  begin and end are
\* taken once, so the loop visits slots 1..Len(buf) of the buffer whatever
\* the size has become.  vector::erase moves the elements behind the erased
\* one down a slot and leaves the bytes of the slots past the new end alone:
\* for int elements such a slot still reads as the value it held.
\* The buffer after the live elements became s.
buffer_after(buf, s) == s \o SubSeq(buf, Len(s) + 1, Len(buf))

RECURSIVE minus_assign_self(_, _, _, _)
minus_assign_self(C, this, buf, i) ==
    IF i > Len(buf) THEN this
    ELSE LET e == erase(C, this, buf[i], FALSE).set
         IN  minus_assign_self(C, e, buffer_after(buf, e), i + 1)

\* operator-=(set): this->erase(value) for every value of s.  When s is
\* this very object the loop walks the vector it erases from.
operator_minus_assign(C, this, s, alias) ==
    IF alias THEN minus_assign_self(C, this, this, 1)
    ELSE erase_each(C, this, s, 1)

RECURSIVE intersect_loop(_, _, _, _, _)
intersect_loop(C, s1, buf, s2, i) ==
    IF i > Len(buf) THEN s1
    ELSE LET e == IF ~contains_value(C, s2, buf[i])
                  THEN erase(C, s1, buf[i], FALSE).set
                  ELSE s1
         IN  intersect_loop(C, e, buffer_after(buf, e), s2, i + 1)

\* A plausible slip: the larger operand is enumerated and returned whole.
intersectionWith_larger(C, this, s) == IF Len(s) <= Len(this) THEN this ELSE s

\* intersectionWith(s): the smaller operand is copied to s1 and walked by a
\* range-for whose body erases from s1.
intersectionWith(C, this, s) ==
    IF Len(s) <= Len(this)
    THEN intersect_loop(C, s, s, this, 1)
    ELSE intersect_loop(C, this, this, s, 1)

-----------------------------------------------------------------------------
(* UnorderedSet<_SET>: a set of sets.  Its _Compare is std::equal_to<_SET>, *)
(* which is operator== of the element sets.                                *)

RECURSIVE nested_find_from(_, _, _, _)
nested_find_from(C, ss, s, it) ==
    IF it > Len(ss) THEN Len(ss) + 1
    ELSE IF operator_eq(C, ss[it], s) THEN it
    ELSE nested_find_from(C, ss, s, it + 1)

\* ret.insert(s) and ret += s on the set of sets, in default mode.
nested_insert(C, ss, s) ==
    IF nested_find_from(C, ss, s, 1) = Len(ss) + 1 THEN Append(ss, s) ELSE ss

\* A plausible slip: stored sets are compared element by element in
\* storage order.
RECURSIVE nested_count_in_order(_, _, _, _)
nested_count_in_order(C, ss, s, it) ==
    IF it > Len(ss) THEN 0
    ELSE (IF ss[it] = s THEN 1 ELSE 0) + nested_count_in_order(C, ss, s, it + 1)

\* count(value) on the set of sets: _Compare is std::equal_to of the inner
\* set type, which is its operator==.
RECURSIVE nested_count(_, _, _, _)
nested_count(C, ss, s, it) ==
    IF it > Len(ss) THEN 0
    ELSE (IF operator_eq(C, ss[it], s) THEN 1 ELSE 0) + nested_count(C, ss, s, it + 1)

\* The set of sets built from an initializer list of sets.
RECURSIVE NestedInitList(_, _, _)
NestedInitList(C, ss, list) ==
    IF list = <<>> THEN ss
    ELSE NestedInitList(C, nested_insert(C, ss, Head(list)), Tail(list))

RECURSIVE times_from(_, _, _, _, _, _)
times_from(C, ret, this, other, i, j) ==
    IF i > Len(this) THEN ret
    ELSE IF j > Len(other) THEN times_from(C, ret, this, other, i + 1, 1)
    ELSE times_from(C, nested_insert(C, ret, InitList(C, <<this[i], other[j]>>)),
                    this, other, i, j + 1)

\* operator*: for every v1 of this and v2 of other the set _SET{v1, v2}.
operator_times(C, this, other) ==
    IF this # <<>> /\ other # <<>> THEN times_from(C, <<>>, this, other, 1, 1)
    ELSE <<>>

\* The test that makes combinations(n) throw.
out_of_range_ge(this, n) == n >= Len(this)

out_of_range(this, n) == n > Len(this)

\* The index vector c of the code is 0-based: its c[i] is c[i + 1] here.
\* First loop of _increase_counters: from position i leftwards, the first
\* counter that can still be advanced.
RECURSIVE increase_scan(_, _, _)
increase_scan(c, limit, i) ==
    LET c1 == [c EXCEPT ![i + 1] = @ + 1]
    IN  IF c1[i + 1] <= limit - (Len(c) - i - 1) THEN [found |-> TRUE, c |-> c1, i |-> i]
        ELSE IF i - 1 < 0 THEN [found |-> FALSE, c |-> c1, i |-> i - 1]
        ELSE increase_scan(c1, limit, i - 1)

\* Second loop: the counters from position i on follow their left neighbour.
RECURSIVE increase_reset(_, _)
increase_reset(c, i) ==
    IF i < Len(c) THEN increase_reset([c EXCEPT ![i + 1] = c[i] + 1], i + 1)
    ELSE c

\* A plausible slip: the index vector is never advanced.
increase_counters_stop(c, size) == [more |-> FALSE, c |-> c, invalid |-> FALSE]

\* _increase_counters(c).  With an empty c the first loop starts at
\* i = c.size() - 1 = -1 and executes ++c[-1]: an access in front of the
\* vector's storage (invalid).
increase_counters(c, size) ==
    IF Len(c) = 0 THEN [more |-> FALSE, c |-> c, invalid |-> TRUE]
    ELSE LET r == increase_scan(c, size - 1, Len(c) - 1)
         IN  IF r.found
             THEN [more |-> TRUE, c |-> increase_reset(r.c, r.i + 1), invalid |-> FALSE]
             ELSE [more |-> FALSE, c |-> r.c, invalid |-> FALSE]

\* _SET s; for (index : counters) s += _set[index];
RECURSIVE select_from(_, _, _, _, _)
select_from(C, s, this, c, i) ==
    IF i > Len(c) THEN s
    ELSE select_from(C, insert(C, s, this[c[i] + 1], TRUE), this, c, i + 1)

RECURSIVE combinations_loop(_, _, _, _)
combinations_loop(C, ret, this, c) ==
    LET ret1 == nested_insert(C, ret, select_from(C, <<>>, this, c, 1))
        r == increase_counters(c, Len(this))
    IN  IF r.more THEN combinations_loop(C, ret1, this, r.c)
        ELSE [sets |-> ret1, thrown |-> FALSE, invalid |-> r.invalid]

\* combinations(n)
combinations(C, this, n) ==
    IF out_of_range(this, n) THEN [sets |-> <<>>, thrown |-> TRUE, invalid |-> FALSE]
    ELSE combinations_loop(C, <<>>, this, [i \in 1..n |-> i - 1])

-----------------------------------------------------------------------------
(* OrderedSet *)

RECURSIVE ordered_find_from(_, _, _)
ordered_find_from(s, v, it) ==
    IF it > Len(s) THEN Len(s) + 1
    ELSE IF ~value_compare(s[it], v) /\ ~value_compare(v, s[it]) THEN it
    ELSE ordered_find_from(s, v, it + 1)

\* A plausible slip: the search compares with == instead of the order.
ordered_find_exact(s, v) == find("equal_to", s, v)

\* OrderedSet::find
ordered_find(s, v) == ordered_find_from(s, v, 1)

RECURSIVE ordered_count_from(_, _, _)
ordered_count_from(s, v, i) ==
    IF i > Len(s) THEN 0
    ELSE (IF ~value_compare(s[i], v) /\ ~value_compare(v, s[i]) THEN 1 ELSE 0)
         + ordered_count_from(s, v, i + 1)

\* OrderedSet::count
ordered_count(s, v) == ordered_count_from(s, v, 1)

\* The scan of OrderedSet::insert: past every element that is less than value.
RECURSIVE ordered_position(_, _, _)
ordered_position(s, v, it) ==
    IF it <= Len(s) /\ value_compare(s[it], v) THEN ordered_position(s, v, it + 1)
    ELSE it

\* A plausible slip: the base class's push_back instead of the sorted splice.
ordered_insert_push_back(s, v, unique) ==
    IF ~unique \/ ordered_find(s, v) = Len(s) + 1 THEN Append(s, v) ELSE s

\* OrderedSet::insert(value, unique)
ordered_insert(s, v, unique) ==
    IF ~unique \/ ordered_find(s, v) = Len(s) + 1
    THEN vector_insert(s, ordered_position(s, v, 1), v)
    ELSE s

RECURSIVE ordered_insert_each(_, _, _)
ordered_insert_each(s, list, i) ==
    IF i > Len(list) THEN s
    ELSE ordered_insert_each(ordered_insert(s, list[i], TRUE), list, i + 1)

\* OrderedSet(initializer_list)
OrderedInitList(list) == ordered_insert_each(<<>>, list, 1)

\* An empty OrderedSet after insert(list[1], unique), insert(list[2], unique), ...
RECURSIVE ordered_inserted_from(_, _, _, _)
ordered_inserted_from(s, list, unique, i) ==
    IF i > Len(list) THEN s
    ELSE ordered_inserted_from(ordered_insert(s, list[i], unique), list, unique, i + 1)

OrderedInserted(list, unique) == ordered_inserted_from(<<>>, list, unique, 1)

-----------------------------------------------------------------------------
(* Rendering.  A std::string is the sequence of its characters. *)

\* Longest format specifier handed to the formatter.
MaxFmt == 3

\* The number of frames of one function the stack has room for.
MaxDepth == 3

\* Largest set whose combinations are enumerated step by step.
MaxEnum == 5

\* The characters a format specifier is made of here: the four flags, the
\* segment separator, and one character that is no flag.
FormatChars == {"c", "C", "t", "T", ":", ";"}

Digit(d) ==
    CASE d = 0 -> "0" [] d = 1 -> "1" [] d = 2 -> "2" [] d = 3 -> "3" [] d = 4 -> "4"
      [] d = 5 -> "5" [] d = 6 -> "6" [] d = 7 -> "7" [] d = 8 -> "8" [] d = 9 -> "9"

\* ss << value for a non-negative int: its decimal digits.
RECURSIVE toString(_)
toString(n) ==
    IF n < 10 THEN <<Digit(n)>> ELSE toString(n \div 10) \o <<Digit(n % 10)>>

\* internals::PrintOptions and its default arguments.
PrintOptions(compact, trailingSeparator, separator) ==
    [compact |-> compact, trailingSeparator |-> trailingSeparator, separator |-> separator]

DefaultOptions == PrintOptions(TRUE, FALSE, <<",">>)

\* The loop of set_to_string over the elements.
RECURSIVE elements_to_string(_, _, _, _, _)
elements_to_string(s, o, space, elementSpacer, i) ==
    IF i > Len(s) THEN <<>>
    ELSE (IF i > 1 THEN o.separator \o elementSpacer ELSE <<>>)
         \o space \o toString(s[i])
         \o elements_to_string(s, o, space, elementSpacer, i + 1)

\* A plausible slip: compact mode puts nothing between the elements.
set_to_string_tight(s, o) ==
    IF Len(s) = 0 THEN <<"{", "}">>
    ELSE <<"{">> \o elements_to_string(s, o, <<>>, <<>>, 1) \o <<"}">>

\* internals::set_to_string(set, options)
set_to_string(s, o) ==
    LET space == IF o.compact THEN <<>> ELSE <<"\t">>
        elementSpacer == IF o.compact THEN <<" ">> ELSE <<"\n">>
    IN  IF Len(s) = 0 THEN <<"{", "}">>
        ELSE <<"{">> \o elementSpacer
             \o elements_to_string(s, o, space, elementSpacer, 1)
             \o (IF o.trailingSeparator THEN o.separator ELSE <<>>)
             \o elementSpacer \o <<"}">>

\* First loop of formatter::parse: the characters up to the closing brace
\* are split at ':' into specifier[0] and specifier[1] (1 and 2 here); a
\* second ':' throws.
RECURSIVE parse_split(_, _, _, _)
parse_split(f, pos, specifier, array_idx) ==
    IF pos > Len(f) THEN [specifier |-> specifier, thrown |-> FALSE]
    ELSE IF f[pos] = ":"
         THEN IF array_idx + 1 >= 2 THEN [specifier |-> specifier, thrown |-> TRUE]
              ELSE parse_split(f, pos + 1, specifier, array_idx + 1)
    ELSE parse_split(f, pos + 1,
                     [specifier EXCEPT ![array_idx + 1] = Append(@, f[pos])], array_idx)

\* Second loop: the switch over the flag characters.
RECURSIVE parse_flags(_, _, _)
parse_flags(flags, i, o) ==
    IF i > Len(flags) THEN [options |-> o, thrown |-> FALSE]
    ELSE CASE flags[i] = "c" -> parse_flags(flags, i + 1, [o EXCEPT !.compact = TRUE])
           [] flags[i] = "C" -> parse_flags(flags, i + 1, [o EXCEPT !.compact = FALSE])
           [] flags[i] = "t" -> parse_flags(flags, i + 1, [o EXCEPT !.trailingSeparator = TRUE])
           [] flags[i] = "T" -> parse_flags(flags, i + 1, [o EXCEPT !.trailingSeparator = FALSE])
           [] OTHER -> [options |-> o, thrown |-> TRUE]

\* A plausible slip: the flags are applied right to left, so that the first
\* of a pair decides.
parse_first_wins(f, o) ==
    LET sp == parse_split(f, 1, << <<>>, <<>> >>, 0)
        flags == sp.specifier[1]
        fl == parse_flags([i \in 1..Len(flags) |-> flags[Len(flags) + 1 - i]], 1, o)
    IN  IF sp.thrown THEN [options |-> o, thrown |-> TRUE]
        ELSE IF fl.thrown THEN fl
        ELSE [options |-> IF sp.specifier[2] # <<>>
                          THEN [fl.options EXCEPT !.separator = sp.specifier[2]]
                          ELSE fl.options,
              thrown |-> FALSE]

\* std::formatter<UnorderedSet>::parse on the specifier f, the formatter
\* holding options o.
parse(f, o) ==
    LET sp == parse_split(f, 1, << <<>>, <<>> >>, 0)
    IN  IF sp.thrown THEN [options |-> o, thrown |-> TRUE]
        ELSE LET fl == parse_flags(sp.specifier[1], 1, o)
             IN  IF fl.thrown THEN fl
                 ELSE [options |-> IF sp.specifier[2] # <<>>
                                   THEN [fl.options EXCEPT !.separator = sp.specifier[2]]
                                   ELSE fl.options,
                       thrown |-> FALSE]

-----------------------------------------------------------------------------
(* State *)

VARIABLES
    set,      \* set[n]: the vector _set of UnorderedSet<int> object n
    pre,      \* the vectors as they were when the last operation began
    oset,     \* the vector _set of the OrderedSet<int, value_compare> object
    opre,     \* oset when the last operation began
    last,     \* the last operation and its arguments
    res,      \* the set the last operation returned, if it returns one
    ret,      \* the number or truth value the last operation returned
    crashed,  \* the process has been stopped by an invalid memory access
    oneCall,  \* the program under test makes a single call and ends
    sets,     \* the set of sets the last operation returned, if it returns one
    thrown,   \* the last operation left by throwing an exception
    shared,   \* the two UnorderedSet objects' vectors occupy one storage
    origin,   \* origin[n]: how the vector of object n came to be
    oarg,     \* the vector of the OrderedSet passed to the last operation
    fmt,      \* the format specifier handed to the formatter, as characters
    options,  \* the PrintOptions of the formatter
    text,     \* the characters the last rendering produced
    counters, \* the index vector of a combinations call in progress
    steps     \* the number of selections that call has made so far

\* The state of the formatter, and of a combinations call in progress.
fvars == <<fmt, options, text>>

cvars == <<counters, steps>>

vars == <<set, pre, oset, opre, last, res, ret, crashed, oneCall,
          sets, thrown, shared, origin, oarg, fmt, options, text, counters, steps>>

Op(op, x, y, v, flag) == [op |-> op, x |-> x, y |-> y, v |-> v, flag |-> flag]

\* A call can be made: the process runs and has calls left to make.  The
\* program that makes a single call makes it on the sets as constructed,
\* copies and moves being ways of constructing them.
Ready == ~crashed /\ (oneCall => last.op \in {"init", "copy", "move", "deepCopy"})

\* A program that makes calls without end keeps its vectors within MaxLen.
Fits(s) == oneCall \/ Len(s) <= MaxLen

Fresh ==
    /\ pre = set
    /\ opre = oset
    /\ last = Op("init", "a", "b", 1, TRUE)
    /\ res = <<>>
    /\ ret = 0
    /\ crashed = FALSE
    /\ sets = <<>>
    /\ thrown = FALSE
    /\ shared = FALSE
    /\ origin = [n \in Names |-> "list"]
    /\ oarg = <<>>
    /\ text = <<>>
    /\ counters = <<>>
    /\ steps = 0
    /\ options = DefaultOptions

Idle == Fresh /\ fmt = <<>>

\* The vectors after object x wrote s to its own: a vector owns its storage,
\* so the write shows in another object only if the two share storage.
Written(x, s) == [n \in Names |-> IF n = x \/ shared THEN s ELSE set[n]]

\* Values are interchangeable under std::equal_to, so the vector of object
\* a is taken up to a renaming of the values: each element is a value met
\* before or the least value not met yet.
Canonical(s) ==
    \A i \in 1..Len(s) : \A w \in 1..(s[i] - 1) : \E j \in 1..(i - 1) : s[j] = w

\* Two sets, each filled by a run of insert calls in one mode: with unique
\* false that is any vector at all, with unique true a duplicate-free one.
Init ==
    /\ \E la, lb \in SeqUpTo(Values, MaxLen), ua, ub \in BOOLEAN :
          /\ Canonical(la)
          /\ set = [n \in Names |-> IF n = "a" THEN Inserted("equal_to", la, ua)
                                   ELSE Inserted("equal_to", lb, ub)]
    /\ oset = <<>>
    /\ oneCall = TRUE
    /\ Idle

\* Two sets built from initializer lists.
InitDefault ==
    /\ set \in [Names -> {InitList("equal_to", l) : l \in SeqUpTo(FewValues, MaxLen)}]
    /\ oset = <<>>
    /\ oneCall = FALSE
    /\ Idle

\* One OrderedSet built from an initializer list.
InitOrdered ==
    /\ set = [n \in Names |-> <<>>]
    /\ oset \in {OrderedInitList(l) : l \in SeqUpTo(Values, MaxLen)}
    /\ oneCall = FALSE
    /\ Idle

-----------------------------------------------------------------------------
(* Operations on the UnorderedSet objects *)

\* set[x].insert(v, unique)
Insert(x, v, unique) ==
    /\ Ready
    /\ Fits(insert("equal_to", set[x], v, unique))
    /\ set' = Written(x, insert("equal_to", set[x], v, unique))
    /\ pre' = set
    /\ last' = Op("insert", x, x, v, unique)
    /\ res' = <<>>
    /\ ret' = 0
    /\ UNCHANGED <<fvars, cvars, oset, opre, crashed, oneCall, sets, thrown, shared, origin, oarg>>

\* set[x].erase(v, all).  A run that used an invalidated iterator may be
\* stopped by the runtime; one that walked past end() never returns.
Erase(x, v, all) ==
    /\ Ready
    /\ LET r == erase("equal_to", set[x], v, all)
       IN  /\ set' = Written(x, r.set)
           /\ \/ ~r.past /\ ret' = r.ret /\ crashed' = FALSE
              \/ r.invalid /\ ret' = 0 /\ crashed' = TRUE
    /\ pre' = set
    /\ last' = Op("erase", x, x, v, all)
    /\ res' = <<>>
    /\ UNCHANGED <<fvars, cvars, oset, opre, oneCall, sets, thrown, shared, origin, oarg>>

\* set[x] += set[y]
PlusAssign(x, y) ==
    /\ Ready
    /\ Fits(operator_plus_assign("equal_to", set[x], set[y], x = y))
    /\ set' = Written(x, operator_plus_assign("equal_to", set[x], set[y], x = y))
    /\ pre' = set
    /\ last' = Op("+=", x, y, 1, TRUE)
    /\ res' = <<>>
    /\ ret' = 0
    /\ UNCHANGED <<fvars, cvars, oset, opre, crashed, oneCall, sets, thrown, shared, origin, oarg>>

\* set[x] -= set[y].  With x and y one object the loop erases from the
\* vector it walks: its iterators are invalid after the first erase and the
\* runtime may stop the process.
MinusAssign(x, y) ==
    /\ Ready
    /\ set' = Written(x, operator_minus_assign("equal_to", set[x], set[y], x = y))
    /\ \/ crashed' = FALSE
       \/ x = y /\ set[x] # <<>> /\ crashed' = TRUE
    /\ pre' = set
    /\ last' = Op("-=", x, y, 1, TRUE)
    /\ res' = <<>>
    /\ ret' = 0
    /\ UNCHANGED <<fvars, cvars, oset, opre, oneCall, sets, thrown, shared, origin, oarg>>

\* res = set[x] + set[y]
Plus(x, y) ==
    /\ Ready
    /\ res' = operator_plus("equal_to", set[x], set[y])
    /\ pre' = set
    /\ last' = Op("+", x, y, 1, TRUE)
    /\ ret' = 0
    /\ UNCHANGED <<fvars, cvars, set, oset, opre, crashed, oneCall, sets, thrown, shared, origin, oarg>>

\* res = set[x] - set[y]
Minus(x, y) ==
    /\ Ready
    /\ res' = operator_minus("equal_to", set[x], set[y])
    /\ pre' = set
    /\ last' = Op("-", x, y, 1, TRUE)
    /\ ret' = 0
    /\ UNCHANGED <<fvars, cvars, set, oset, opre, crashed, oneCall, sets, thrown, shared, origin, oarg>>

\* res = set[x].intersectionWith(set[y]).  Once the loop has erased, its
\* iterators are invalid and the runtime may stop the process.
IntersectionWith(x, y) ==
    /\ Ready
    /\ \/ /\ res' = intersectionWith("equal_to", set[x], set[y])
          /\ crashed' = FALSE
       \/ /\ ~contains("equal_to", set[x], set[y], TRUE)
          /\ res' = <<>>
          /\ crashed' = TRUE
    /\ pre' = set
    /\ last' = Op("intersectionWith", x, y, 1, TRUE)
    /\ ret' = 0
    /\ UNCHANGED <<fvars, cvars, set, oset, opre, oneCall, sets, thrown, shared, origin, oarg>>

\* ret = (set[x] == set[y])
Equal(x, y) ==
    /\ Ready
    /\ ret' = operator_eq("equal_to", set[x], set[y])
    /\ pre' = set
    /\ last' = Op("==", x, y, 1, TRUE)
    /\ res' = <<>>
    /\ UNCHANGED <<fvars, cvars, set, oset, opre, crashed, oneCall, sets, thrown, shared, origin, oarg>>

\* ret = set[x].contains(set[y], strict)
Contains(x, y, strict) ==
    /\ Ready
    /\ ret' = contains("equal_to", set[x], set[y], strict)
    /\ pre' = set
    /\ last' = Op("contains", x, y, 1, strict)
    /\ res' = <<>>
    /\ UNCHANGED <<fvars, cvars, set, oset, opre, crashed, oneCall, sets, thrown, shared, origin, oarg>>

\* ret = (set[x] != set[y])
NotEqual(x, y) ==
    /\ Ready
    /\ ret' = operator_ne("equal_to", set[x], set[y])
    /\ pre' = set
    /\ last' = Op("!=", x, y, 1, TRUE)
    /\ res' = <<>>
    /\ UNCHANGED <<fvars, cvars, set, oset, opre, crashed, oneCall, sets, thrown, shared, origin, oarg>>

\* sets = set[x] * set[y]
Times(x, y) ==
    /\ Ready
    /\ sets' = operator_times("equal_to", set[x], set[y])
    /\ pre' = set
    /\ last' = Op("*", x, y, 1, TRUE)
    /\ res' = <<>>
    /\ ret' = 0
    /\ UNCHANGED <<fvars, cvars, set, oset, opre, crashed, oneCall, thrown, shared, origin, oarg>>

\* sets = set[x].combinations(n), or the exception it throws.  After the
\* access in front of the index vector the call may finish or the runtime
\* may stop the process.
Combinations(x, n) ==
    /\ Ready
    /\ LET r == combinations("equal_to", set[x], n)
       IN  \/ sets' = r.sets /\ thrown' = r.thrown /\ crashed' = FALSE
           \/ r.invalid /\ sets' = <<>> /\ thrown' = FALSE /\ crashed' = TRUE
    /\ pre' = set
    /\ last' = Op("combinations", x, x, n, TRUE)
    /\ res' = <<>>
    /\ ret' = 0
    /\ UNCHANGED <<fvars, cvars, set, oset, opre, oneCall, shared, origin, oarg>>

\* set[x] = res, the copy assignment of the set an operator returned.
Assign(x) ==
    /\ Ready
    /\ last.op \in {"+", "-", "intersectionWith"}
    /\ Fits(res)
    /\ set' = Written(x, res)
    /\ pre' = set
    /\ last' = Op("=", x, x, 1, TRUE)
    /\ UNCHANGED <<fvars, cvars, oset, opre, res, ret, crashed, oneCall, sets, thrown, shared, origin, oarg>>

\* The binary operations, with object a on the left and either object on
\* the right: the two objects are interchangeable, so this is every call.
Algebra ==
    \/ \E y \in Names : PlusAssign("a", y)
    \/ \E y \in Names : MinusAssign("a", y)
    \/ \E y \in Names : Plus("a", y)
    \/ \E y \in Names : Minus("a", y)
    \/ \E y \in Names : IntersectionWith("a", y)
    \/ \E y \in Names : Equal("a", y)
    \/ \E y \in Names, strict \in BOOLEAN : Contains("a", y, strict)

\* One call on two sets in any state a run of inserts can leave them in
\* (Init sets oneCall).
Next ==
    \/ \E v \in Values, unique \in BOOLEAN : Insert("a", v, unique)
    \/ \E v \in Values, all \in BOOLEAN : Erase("a", v, all)
    \/ Algebra
    \/ \E y \in Names : NotEqual("a", y)
    \/ \E y \in Names : Times("a", y)
    \/ \E n \in 0..(MaxLen + 1) : Combinations("a", n)

Spec == Init /\ [][Next]_vars

\* Any sequence of calls in which every insertion is in the default unique
\* mode.
NextDefault ==
    \/ \E x \in Names, v \in FewValues : Insert(x, v, TRUE)
    \/ \E x \in Names, v \in FewValues, all \in BOOLEAN : Erase(x, v, all)
    \/ Algebra
    \/ \E x \in Names : Assign(x)

SpecDefault == InitDefault /\ [][NextDefault]_vars

-----------------------------------------------------------------------------
(* Copying and moving UnorderedSet objects *)

\* Two sets in any state a run of inserts can leave them in, object a up
\* to a renaming of the values.
InitCopy ==
    /\ \E la, lb \in SeqUpTo(FewValues, MaxLen) :
          /\ Canonical(la)
          /\ set = [n \in Names |-> IF n = "a" THEN la ELSE lb]
    /\ oset = <<>>
    /\ oneCall = TRUE
    /\ Idle

\* Object x is copy-constructed from object y (ctor), or copy-assigned it.
\* Both execute _set = s._set.
Copy(x, y, ctor) ==
    /\ Ready
    /\ x # y
    /\ LET r == vector_copy(IF ctor THEN <<>> ELSE set[x], set[y])
       IN  /\ set' = [set EXCEPT ![x] = r.data]
           /\ shared' = r.shared
    /\ origin' = [origin EXCEPT ![x] = "copy"]
    /\ pre' = set
    /\ last' = Op("copy", x, y, 1, ctor)
    /\ res' = <<>>
    /\ ret' = 0
    /\ UNCHANGED <<fvars, cvars, oset, opre, crashed, oneCall, sets, thrown, oarg>>

\* Object x is move-constructed from object y (ctor), or move-assigned it.
\* Both execute _set = std::move(s._set).
Move(x, y, ctor) ==
    /\ Ready
    /\ x # y
    /\ LET r == vector_move(IF ctor THEN <<>> ELSE set[x], set[y])
       IN  set' = [set EXCEPT ![x] = r.dst, ![y] = r.src]
    /\ origin' = [origin EXCEPT ![x] = "move", ![y] = "moved_from"]
    /\ pre' = set
    /\ last' = Op("move", x, y, 1, ctor)
    /\ res' = <<>>
    /\ ret' = 0
    /\ UNCHANGED <<fvars, cvars, oset, opre, crashed, oneCall, sets, thrown, shared, oarg>>

\* Object x is assigned _SET::deepCopy(set[y]): the result is built by
\* default insertion into an empty set and moved into x.
DeepCopy(x, y) ==
    /\ Ready
    /\ x # y
    /\ set' = [set EXCEPT ![x] = deepCopy("equal_to", set[y])]
    /\ shared' = FALSE
    /\ origin' = [origin EXCEPT ![x] = "deep"]
    /\ pre' = set
    /\ last' = Op("deepCopy", x, y, 1, TRUE)
    /\ res' = <<>>
    /\ ret' = 0
    /\ UNCHANGED <<fvars, cvars, oset, opre, crashed, oneCall, sets, thrown, oarg>>

\* set[x].unique()
Unique(x) ==
    /\ Ready
    /\ set' = Written(x, unordered_unique("equal_to", set[x]))
    /\ pre' = set
    /\ last' = Op("unique", x, x, 1, TRUE)
    /\ res' = <<>>
    /\ ret' = 0
    /\ UNCHANGED <<fvars, cvars, oset, opre, crashed, oneCall, sets, thrown, shared,
                   origin, oarg>>

\* Any copies and moves between the two objects, then one insert, erase or
\* unique on either of them.
NextCopy ==
    \/ \E x, y \in Names, ctor \in BOOLEAN : Copy(x, y, ctor)
    \/ \E x, y \in Names, ctor \in BOOLEAN : Move(x, y, ctor)
    \/ \E x, y \in Names : DeepCopy(x, y)
    \/ \E x \in Names : Unique(x)
    \/ \E x \in Names, v \in FewValues, unique \in BOOLEAN : Insert(x, v, unique)
    \/ \E x \in Names, v \in FewValues, all \in BOOLEAN : Erase(x, v, all)

SpecCopy == InitCopy /\ [][NextCopy]_vars

-----------------------------------------------------------------------------
(* Rendering a set: std::format("{:<fmt>}", a), or os << a *)

\* A set built from an initializer list and a format specifier.
InitFormat ==
    /\ set \in [Names -> {InitList("equal_to", l) : l \in SeqUpTo(FewValues, MaxLen)}]
    /\ set["b"] = <<>>
    /\ oset = <<>>
    /\ oneCall = FALSE
    /\ fmt \in SeqUpTo(FormatChars, MaxFmt)
    /\ Fresh

\* The formatter parses the specifier; it may throw std::format_error.
Parse ==
    /\ Ready
    /\ last.op = "init"
    /\ LET r == parse(fmt, options)
       IN  options' = r.options /\ thrown' = r.thrown
    /\ pre' = set
    /\ last' = Op("parse", "a", "a", 1, TRUE)
    /\ UNCHANGED <<cvars, set, oset, opre, res, ret, crashed, oneCall, sets, shared,
                   origin, oarg, fmt, text>>

\* The set is rendered with the options the formatter holds: after a parse
\* that did not throw, or with the default options when there was none.
Format ==
    /\ Ready
    /\ last.op \in {"init", "parse"}
    /\ ~thrown
    /\ text' = set_to_string(set["a"], options)
    /\ pre' = set
    /\ last' = Op("format", "a", "a", 1, last.op = "parse")
    /\ UNCHANGED <<cvars, set, oset, opre, res, ret, crashed, oneCall, sets, thrown,
                   shared, origin, oarg, fmt, options>>

NextFormat == Parse \/ Format

SpecFormat == InitFormat /\ [][NextFormat]_vars

-----------------------------------------------------------------------------
(* combinations(n), one pass of its do-while loop at a time *)

\* Object a holds the elements 1..size.
InitEnum ==
    /\ \E size \in 0..MaxEnum :
          set = [n \in Names |-> IF n = "a" THEN [i \in 1..size |-> i] ELSE <<>>]
    /\ oset = <<>>
    /\ oneCall = TRUE
    /\ Idle

\* a.combinations(n) is called: it throws, or fills counters with 0..n-1.
CombinationsBegin(n) ==
    /\ Ready
    /\ last.op = "init"
    /\ IF out_of_range(set["a"], n)
       THEN /\ thrown' = TRUE
            /\ last' = Op("combinations", "a", "a", n, TRUE)
            /\ UNCHANGED counters
       ELSE /\ thrown' = FALSE
            /\ last' = Op("combinations_select", "a", "a", n, TRUE)
            /\ counters' = [i \in 1..n |-> i - 1]
    /\ pre' = set
    /\ UNCHANGED <<fvars, steps, set, oset, opre, res, ret, crashed, oneCall, sets,
                   shared, origin, oarg>>

\* The body of the do-while loop: the elements the counters name are put
\* into a set, and that set into ret.
CombinationsSelect ==
    /\ ~crashed
    /\ last.op = "combinations_select"
    /\ sets' = nested_insert("equal_to", sets,
                             select_from("equal_to", <<>>, set["a"], counters, 1))
    /\ steps' = steps + 1
    /\ last' = [last EXCEPT !.op = "combinations_advance"]
    /\ UNCHANGED <<fvars, counters, set, pre, oset, opre, res, ret, crashed, oneCall,
                   thrown, shared, origin, oarg>>

\* The condition of the do-while loop: _increase_counters(counters) leads
\* to the next pass or to the return.  Its access in front of an empty
\* index vector may stop the process.
CombinationsAdvance ==
    /\ ~crashed
    /\ last.op = "combinations_advance"
    /\ LET r == increase_counters(counters, Len(set["a"]))
       IN  \/ /\ counters' = r.c
              /\ last' = [last EXCEPT !.op = IF r.more THEN "combinations_select"
                                              ELSE "combinations"]
              /\ crashed' = FALSE
           \/ /\ r.invalid
              /\ crashed' = TRUE
              /\ UNCHANGED <<counters, last>>
    /\ UNCHANGED <<fvars, steps, set, pre, oset, opre, res, ret, oneCall, sets, thrown,
                   shared, origin, oarg>>

NextEnum ==
    \/ \E n \in 0..(MaxEnum + 1) : CombinationsBegin(n)
    \/ CombinationsSelect
    \/ CombinationsAdvance

SpecEnum == InitEnum /\ [][NextEnum]_vars

\* The call runs on: a step that can be taken is taken.
SpecEnumFair == SpecEnum /\ WF_vars(NextEnum)

-----------------------------------------------------------------------------
(* Comparisons of two sets: a < b, a.subseteq(b), ... *)

\* Any two vectors, duplicates and every storage order included.
InitRelations ==
    /\ set \in [Names -> SeqUpTo(FewValues, MaxLen)]
    /\ oset = <<>>
    /\ oneCall = TRUE
    /\ Idle

\* A call of op on x and y returns and has changed nothing.
Returned(op, x, y) ==
    /\ pre' = set
    /\ last' = Op(op, x, y, 1, TRUE)
    /\ UNCHANGED <<fvars, cvars, set, oset, opre, res, crashed, oneCall, sets, thrown,
                   shared, origin, oarg>>

\* x < y
Less(x, y) ==
    /\ Ready
    /\ ret' = operator_lt(set[x], set[y])
    /\ Returned("lt", x, y)

Subseteq(x, y) ==
    /\ Ready
    /\ ret' = subseteq("equal_to", set[x], set[y])
    /\ Returned("subseteq", x, y)

Subset(x, y) ==
    /\ Ready
    /\ ret' = subset("equal_to", set[x], set[y])
    /\ Returned("subset", x, y)

Superseteq(x, y) ==
    /\ Ready
    /\ ret' = superseteq("equal_to", set[x], set[y])
    /\ Returned("superseteq", x, y)

\* x.superset(y) is called: its first frame returns or calls again.
Superset(x, y) ==
    /\ Ready
    /\ LET r == superset_frame("equal_to", set[x], set[y])
       IN  IF r.returns
           THEN ret' = r.ret /\ last' = Op("superset", x, y, 1, TRUE) /\ steps' = 0
           ELSE ret' = ret /\ last' = Op("superset_call", x, y, 1, TRUE) /\ steps' = 1
    /\ pre' = set
    /\ UNCHANGED <<fvars, counters, set, oset, opre, res, crashed, oneCall, sets, thrown,
                   shared, origin, oarg>>

\* A frame of superset that did not return has called superset(s) with the
\* same operands: the new frame returns or calls again; when the stack has
\* no room for it the process is stopped.
SupersetAgain ==
    /\ ~crashed
    /\ last.op = "superset_call"
    /\ LET r == superset_frame("equal_to", set[last.x], set[last.y])
       IN  IF steps >= MaxDepth
           THEN crashed' = TRUE /\ UNCHANGED <<ret, last, steps>>
           ELSE IF r.returns
           THEN /\ ret' = r.ret /\ last' = [last EXCEPT !.op = "superset"]
                /\ UNCHANGED <<crashed, steps>>
           ELSE steps' = steps + 1 /\ UNCHANGED <<ret, last, crashed>>
    /\ UNCHANGED <<fvars, counters, set, pre, oset, opre, res, oneCall, sets, thrown,
                   shared, origin, oarg>>

NextRelations ==
    \/ \E y \in Names : Less("a", y)
    \/ \E y \in Names : Subseteq("a", y)
    \/ \E y \in Names : Subset("a", y)
    \/ \E y \in Names : Superseteq("a", y)
    \/ \E y \in Names : Superset("a", y)
    \/ SupersetAgain

SpecRelations == InitRelations /\ [][NextRelations]_vars

-----------------------------------------------------------------------------
(* A set of sets: UnorderedSet<UnorderedSet<int>> nested{ {..}, {..} } *)

\* The inner sets an initializer list of ints can build.
InnerSets == {InitList("equal_to", l) : l \in SeqUpTo(FewValues, MaxLen)}

\* nested is built from a list of at most two inner sets; object a is the
\* set that is asked for.
InitNested ==
    /\ \E x, y \in InnerSets :
          sets \in {NestedInitList("equal_to", <<>>, l) : l \in {<<>>, <<x>>, <<x, y>>}}
    /\ set \in [Names -> InnerSets]
    /\ set["b"] = <<>>
    /\ oset = <<>>
    /\ oneCall = TRUE
    /\ pre = set
    /\ opre = oset
    /\ last = Op("init", "a", "b", 1, TRUE)
    /\ res = <<>>
    /\ ret = 0
    /\ crashed = FALSE
    /\ thrown = FALSE
    /\ shared = FALSE
    /\ origin = [n \in Names |-> "list"]
    /\ oarg = <<>>
    /\ text = <<>>
    /\ counters = <<>>
    /\ steps = 0
    /\ options = DefaultOptions
    /\ fmt = <<>>

\* nested.count(a)
NestedCount ==
    /\ Ready
    /\ ret' = nested_count("equal_to", sets, set["a"], 1)
    /\ pre' = set
    /\ last' = Op("nested_count", "a", "a", 1, TRUE)
    /\ UNCHANGED <<fvars, cvars, set, oset, opre, res, crashed, oneCall, sets, thrown,
                   shared, origin, oarg>>

\* nested.insert(a), in default mode.
NestedInsert ==
    /\ Ready
    /\ sets' = nested_insert("equal_to", sets, set["a"])
    /\ pre' = set
    /\ last' = Op("nested_insert", "a", "a", 1, TRUE)
    /\ UNCHANGED <<fvars, cvars, set, oset, opre, res, ret, crashed, oneCall, thrown,
                   shared, origin, oarg>>

NextNested == NestedCount \/ NestedInsert

SpecNested == InitNested /\ [][NextNested]_vars

-----------------------------------------------------------------------------
(* Operations on the OrderedSet object *)

\* The while loop of OrderedSet::unique() for one i.  The element at j is
\* erased when it is not after the element at i and not before itself; j
\* is used again after _set.erase(j) has invalidated it.  With the vector's
\* pointer iterators j then names the element that moved into the slot.
\* invalid: an invalidated iterator was used; stopped: the vector at the
\* first such use.
RECURSIVE ordered_unique_inner(_, _, _)
ordered_unique_inner(r, i, j) ==
    IF j > Len(r.set) THEN r
    ELSE IF ~value_compare(r.set[i], r.set[j]) /\ ~value_compare(r.set[j], r.set[j])
         THEN ordered_unique_inner(
                  [set |-> vector_erase(r.set, j), invalid |-> TRUE,
                   stopped |-> IF r.invalid THEN r.stopped ELSE vector_erase(r.set, j)],
                  i, j)
         ELSE ordered_unique_inner(r, i, j + 1)

RECURSIVE ordered_unique_outer(_, _)
ordered_unique_outer(r, i) ==
    IF i > Len(r.set) THEN r
    ELSE ordered_unique_outer(ordered_unique_inner(r, i, i + 1), i + 1)

\* OrderedSet::unique()
ordered_unique(s) == ordered_unique_outer([set |-> s, invalid |-> FALSE, stopped |-> s], 1)

\* oset.unique().  A run that used an invalidated iterator may be stopped by
\* the runtime at that use.
OrderedUnique ==
    /\ Ready
    /\ LET r == ordered_unique(oset)
       IN  \/ oset' = r.set /\ crashed' = FALSE
           \/ r.invalid /\ oset' = r.stopped /\ crashed' = TRUE
    /\ opre' = oset
    /\ last' = Op("unique", "a", "a", 1, TRUE)
    /\ UNCHANGED <<fvars, cvars, set, pre, res, ret, oneCall, sets, thrown, shared,
                   origin, oarg>>

\* oset.insert(v, unique)
OrderedInsert(v, unique) ==
    /\ Ready
    /\ Fits(ordered_insert(oset, v, unique))
    /\ oset' = ordered_insert(oset, v, unique)
    /\ opre' = oset
    /\ last' = Op("insert", "a", "a", v, unique)
    /\ ret' = 0
    /\ UNCHANGED <<fvars, cvars, set, pre, res, crashed, oneCall, sets, thrown, shared, origin, oarg>>

\* oset.erase(v, all): the erase of the base class, whose _Compare is
\* ComparatorEqual<int, value_compare>.
OrderedErase(v, all) ==
    /\ Ready
    /\ LET r == erase("ComparatorEqual", oset, v, all)
       IN  /\ oset' = r.set
           /\ \/ ~r.past /\ ret' = r.ret /\ crashed' = FALSE
              \/ r.invalid /\ ret' = 0 /\ crashed' = TRUE
    /\ opre' = oset
    /\ last' = Op("erase", "a", "a", v, all)
    /\ UNCHANGED <<fvars, cvars, set, pre, res, oneCall, sets, thrown, shared, origin, oarg>>

\* ret = the position oset.find(v) returns (Len(oset) + 1 is end())
OrderedFind(v) ==
    /\ Ready
    /\ ret' = ordered_find(oset, v)
    /\ opre' = oset
    /\ last' = Op("find", "a", "a", v, TRUE)
    /\ UNCHANGED <<fvars, cvars, set, pre, oset, res, crashed, oneCall, sets, thrown, shared, origin, oarg>>

\* ret = oset.count(v)
OrderedCount(v) ==
    /\ Ready
    /\ ret' = ordered_count(oset, v)
    /\ opre' = oset
    /\ last' = Op("count", "a", "a", v, TRUE)
    /\ UNCHANGED <<fvars, cvars, set, pre, oset, res, crashed, oneCall, sets, thrown, shared, origin, oarg>>

\* ret = oset.contains(v): contains(value) of the base class, whose _Compare
\* is ComparatorEqual<int, value_compare>.
OrderedContains(v) ==
    /\ Ready
    /\ ret' = contains_value("ComparatorEqual", oset, v)
    /\ opre' = oset
    /\ last' = Op("contains", "a", "a", v, TRUE)
    /\ UNCHANGED <<fvars, cvars, set, pre, oset, res, crashed, oneCall, sets, thrown, shared, origin, oarg>>

NextOrdered ==
    \/ \E v \in Values, unique \in BOOLEAN : OrderedInsert(v, unique)
    \/ \E v \in Values, all \in BOOLEAN : OrderedErase(v, all)
    \/ \E v \in Values : OrderedFind(v)
    \/ \E v \in Values : OrderedCount(v)
    \/ \E v \in Values : OrderedContains(v)
    \/ OrderedUnique

SpecOrdered == InitOrdered /\ [][NextOrdered]_vars

-----------------------------------------------------------------------------
(* The set algebra the OrderedSet inherits.  The operators are members of  *)
(* the base class UnorderedSet<int, ComparatorEqual<int, value_compare>>:  *)
(* the insert and erase they call are those of the base class.             *)

\* The vectors a run of OrderedSet::insert calls in one mode can leave.
OrderedVectors ==
    {OrderedInserted(l, u) : l \in SeqUpTo(Values, MaxLen), u \in BOOLEAN}

\* One OrderedSet in any such state; the program makes one call on it.
InitOrderedAlgebra ==
    /\ set = [n \in Names |-> <<>>]
    /\ oset \in OrderedVectors
    /\ oneCall = TRUE
    /\ Idle

\* res = oset + b
OrderedPlus(b) ==
    /\ Ready
    /\ res' = operator_plus("ComparatorEqual", oset, b)
    /\ oarg' = b
    /\ opre' = oset
    /\ last' = Op("+", "a", "b", 1, TRUE)
    /\ UNCHANGED <<fvars, cvars, set, pre, oset, ret, crashed, oneCall, sets, thrown, shared, origin>>

\* res = oset + v
OrderedPlusValue(v) ==
    /\ Ready
    /\ res' = operator_plus_value("ComparatorEqual", oset, v)
    /\ opre' = oset
    /\ last' = Op("+", "a", "a", v, FALSE)
    /\ UNCHANGED <<fvars, cvars, set, pre, oset, ret, crashed, oneCall, sets, thrown, shared, origin, oarg>>

\* oset += b
OrderedPlusAssign(b) ==
    /\ Ready
    /\ oset' = operator_plus_assign("ComparatorEqual", oset, b, FALSE)
    /\ oarg' = b
    /\ opre' = oset
    /\ last' = Op("+=", "a", "b", 1, TRUE)
    /\ UNCHANGED <<fvars, cvars, set, pre, res, ret, crashed, oneCall, sets, thrown, shared, origin>>

\* res = oset - b
OrderedMinus(b) ==
    /\ Ready
    /\ res' = operator_minus("ComparatorEqual", oset, b)
    /\ oarg' = b
    /\ opre' = oset
    /\ last' = Op("-", "a", "b", 1, TRUE)
    /\ UNCHANGED <<fvars, cvars, set, pre, oset, ret, crashed, oneCall, sets, thrown, shared, origin>>

\* oset -= b
OrderedMinusAssign(b) ==
    /\ Ready
    /\ oset' = operator_minus_assign("ComparatorEqual", oset, b, FALSE)
    /\ oarg' = b
    /\ opre' = oset
    /\ last' = Op("-=", "a", "b", 1, TRUE)
    /\ UNCHANGED <<fvars, cvars, set, pre, res, ret, crashed, oneCall, sets, thrown, shared, origin>>

\* res = oset.intersectionWith(b).  Once the loop has erased, its iterators
\* are invalid and the runtime may stop the process.
OrderedIntersectionWith(b) ==
    /\ Ready
    /\ \/ /\ res' = intersectionWith("ComparatorEqual", oset, b)
          /\ crashed' = FALSE
       \/ /\ ~contains("ComparatorEqual", oset, b, TRUE)
          /\ res' = <<>>
          /\ crashed' = TRUE
    /\ oarg' = b
    /\ opre' = oset
    /\ last' = Op("intersectionWith", "a", "b", 1, TRUE)
    /\ UNCHANGED <<fvars, cvars, set, pre, oset, ret, oneCall, sets, thrown, shared, origin>>

NextOrderedAlgebra ==
    \/ \E b \in OrderedVectors : OrderedPlus(b)
    \/ \E v \in Values : OrderedPlusValue(v)
    \/ \E b \in OrderedVectors : OrderedPlusAssign(b)
    \/ \E b \in OrderedVectors : OrderedMinus(b)
    \/ \E b \in OrderedVectors : OrderedMinusAssign(b)
    \/ \E b \in OrderedVectors : OrderedIntersectionWith(b)

SpecOrderedAlgebra == InitOrderedAlgebra /\ [][NextOrderedAlgebra]_vars

-----------------------------------------------------------------------------
(* Vocabulary of the properties *)

EQ == "equal_to"

\* No two stored elements are equivalent.
NoDup(C, s) == \A i, j \in 1..Len(s) : i # j => ~equal_compare(C, s[i], s[j])

\* Some stored element is equivalent to v.
Holds(C, s, v) == \E i \in 1..Len(s) : equal_compare(C, s[i], v)

\* The number of equivalence classes stored.
Classes(C, s) == Cardinality({ {j \in 1..Len(s) : equal_compare(C, s[i], s[j])} : i \in 1..Len(s) })

\* Non-decreasing under the order predicate.
Sorted(s) == \A i \in 1..(Len(s) - 1) : ~value_compare(s[i + 1], s[i])

\* The elements of s that have no equivalent in t, in their order.
RECURSIVE Without(_, _, _)
Without(C, s, t) ==
    IF s = <<>> THEN <<>>
    ELSE IF Holds(C, t, Head(s)) THEN Without(C, Tail(s), t)
    ELSE <<Head(s)>> \o Without(C, Tail(s), t)

Smaller(m, n) == IF m <= n THEN m ELSE n

\* s and t have the same size and each holds every element of the other.
SameSizeAndMembers(C, s, t) ==
    /\ Len(s) = Len(t)
    /\ \A i \in 1..Len(s) : Holds(C, t, s[i])
    /\ \A i \in 1..Len(t) : Holds(C, s, t[i])

\* The values stored in s.
Range(s) == {s[i] : i \in 1..Len(s)}

\* The number of k-element subsets of an n-element set.
RECURSIVE Binomial(_, _)
Binomial(n, k) ==
    IF k = 0 \/ k = n THEN 1
    ELSE IF k > n THEN 0
    ELSE Binomial(n - 1, k - 1) + Binomial(n - 1, k)

-----------------------------------------------------------------------------
(* C1 *)

\* C1: whatever inserts (unique or not) and erasures by value an OrderedSet
\* has been through, starting empty or from an initializer list, no element
\* of its vector is less than the one before it.
C1_Sorted == Sorted(oset)

\* A non-unique insert has spliced a value in front of stored elements.
C1_Witness ==
    /\ last.op = "insert"
    /\ ~last.flag
    /\ Len(oset) = 3
    /\ Len(opre) = 2
    /\ oset[3] # last.v
    /\ value_compare(oset[1], oset[3])

-----------------------------------------------------------------------------
(* C2 *)

\* C2: when every insertion used the default unique mode, then after any
\* sequence of insert, erase, union and difference calls no set (and no
\* returned set) holds two equivalent elements: its size is the number of
\* equivalence classes it stores and count(v) is 0 or 1 for every v.
C2_NoEquivalentPair ==
    \A s \in {set["a"], set["b"], res} :
        /\ NoDup(EQ, s)
        /\ Len(s) = Classes(EQ, s)
        /\ \A v \in Values : count(EQ, s, v) \in {0, 1}

\* A union has met a value both operands hold and has kept one of it.
C2_Witness ==
    /\ last.op = "+="
    /\ last.y = "b"
    /\ ~crashed
    /\ \E v \in Values : Holds(EQ, pre["a"], v) /\ Holds(EQ, pre["b"], v)
    /\ Len(set["a"]) = 3
    /\ Len(pre["a"]) = 2

-----------------------------------------------------------------------------
(* C3 *)

\* C3: after an insert with default arguments the value is stored exactly
\* once, and an insert of a value that is already stored (the second of two
\* inserts of it) leaves the vector, hence size(), as it was.
C3_SecondInsertNoOp ==
    last.op = "insert" /\ last.flag =>
        /\ count(EQ, set[last.x], last.v) = 1
        /\ (count(EQ, pre[last.x], last.v) = 1 => set = pre)

\* An insert of a value the set already held has run.
C3_Witness ==
    /\ last.op = "insert"
    /\ last.flag
    /\ count(EQ, pre[last.x], last.v) = 1
    /\ Len(set[last.x]) = 2
    /\ set = pre

-----------------------------------------------------------------------------
(* C4 *)

\* C4 as claimed: for all sets a and b, (a + b) == (b + a).
C4_Commutative ==
    last.op = "+" =>
        operator_eq(EQ, res, operator_plus(EQ, set[last.y], set[last.x]))

\* C4 amended: for all sets a and b neither of which holds two equivalent
\* elements, (a + b) == (b + a).
C4_CommutativeNoDup ==
    last.op = "+" /\ NoDup(EQ, set[last.x]) /\ NoDup(EQ, set[last.y]) =>
        operator_eq(EQ, res, operator_plus(EQ, set[last.y], set[last.x]))

\* a + b of two overlapping duplicate-free sets, stored in another order
\* than b + a.
C4_Witness ==
    /\ last.op = "+"
    /\ last.y = "b"
    /\ NoDup(EQ, set["a"])
    /\ NoDup(EQ, set["b"])
    /\ Len(set["a"]) = 2
    /\ Len(set["b"]) = 2
    /\ Len(res) = 3
    /\ res # operator_plus(EQ, set["b"], set["a"])

-----------------------------------------------------------------------------
(* C5 *)

\* The parts of C5 that do not speak of counts: after a += b, a holds every
\* element that was in a or in b, the elements a had are where they were,
\* and b is as it was.
C5_Frame ==
    /\ contains_all(EQ, set[last.x], pre[last.x])
    /\ contains_all(EQ, set[last.x], pre[last.y])
    /\ SubSeq(set[last.x], 1, Len(pre[last.x])) = pre[last.x]
    /\ set[last.y] = pre[last.y]

C5_CountOne ==
    \A v \in Values :
        Holds(EQ, pre[last.x], v) \/ Holds(EQ, pre[last.y], v) =>
            count(EQ, set[last.x], v) = 1

\* C5 as claimed.
C5_PlusAssign == last.op = "+=" => C5_Frame /\ C5_CountOne

\* C5 amended: after a += b, a holds every element that was in a or in b,
\* the elements a had keep their positions, b is unchanged, and, if a held
\* no two equivalent elements before the call, every value present in
\* either operand has count exactly 1 in a.
C5_PlusAssignNoDup ==
    last.op = "+=" => C5_Frame /\ (NoDup(EQ, pre[last.x]) => C5_CountOne)

\* a += b where b holds a value of a, a value new to a, and a duplicate.
C5_Witness ==
    /\ last.op = "+="
    /\ last.y = "b"
    /\ NoDup(EQ, pre["a"])
    /\ ~NoDup(EQ, pre["b"])
    /\ Len(pre["a"]) = 2
    /\ Len(set["a"]) = 3
    /\ \E v \in Values : Holds(EQ, pre["a"], v) /\ Holds(EQ, pre["b"], v)

-----------------------------------------------------------------------------
(* C6 *)

C6_NoneOfB ==
    \A i \in 1..Len(res) : ~Holds(EQ, set[last.y], res[i])

\* C6 as claimed: for all sets a and b, a - b holds no element equivalent to
\* an element of b, and a and b are unchanged.
C6_Minus == last.op = "-" => C6_NoneOfB /\ set = pre

\* C6 amended: for all sets a that hold no two equivalent elements and all
\* sets b, a - b holds no element equivalent to an element of b; for all
\* sets a and b, the call leaves a and b unchanged.
C6_MinusNoDup ==
    last.op = "-" => (NoDup(EQ, set[last.x]) => C6_NoneOfB) /\ set = pre

\* a - b has removed an element of b from between two elements it kept.
C6_Witness ==
    /\ last.op = "-"
    /\ last.y = "b"
    /\ NoDup(EQ, set["a"])
    /\ Len(set["a"]) = 3
    /\ Holds(EQ, set["b"], set["a"][2])
    /\ res = <<set["a"][1], set["a"][3]>>

-----------------------------------------------------------------------------
(* C7 *)

\* C7, for a set a that holds no two equivalent elements: after a -= b (the
\* call returned), a has lost every element equivalent to an element of b,
\* the other elements of a are all still there, once each and in their
\* order, and b is unchanged unless it is a.
C7_MinusAssign ==
    last.op = "-=" /\ ~crashed /\ NoDup(EQ, pre[last.x]) =>
        /\ \A i \in 1..Len(set[last.x]) : ~Holds(EQ, pre[last.y], set[last.x][i])
        /\ set[last.x] = Without(EQ, pre[last.x], pre[last.y])
        /\ NoDup(EQ, set[last.x])
        /\ (last.y # last.x => set[last.y] = pre[last.y])

-----------------------------------------------------------------------------
(* C8 *)

\* C8, for sets a and b that hold no two equivalent elements:
\* a.intersectionWith(b), when it returns, returns exactly the common
\* elements: every element of the result is in a and in b, and every value
\* that is in a and in b is in the result.
C8_Intersection ==
    last.op = "intersectionWith" /\ ~crashed
    /\ NoDup(EQ, set[last.x]) /\ NoDup(EQ, set[last.y]) =>
        /\ \A i \in 1..Len(res) :
              contains_value(EQ, set[last.x], res[i]) /\ contains_value(EQ, set[last.y], res[i])
        /\ \A v \in Values :
              contains_value(EQ, set[last.x], v) /\ contains_value(EQ, set[last.y], v)
                  => contains_value(EQ, res, v)

-----------------------------------------------------------------------------
(* C9 *)

\* C9: the set a.intersectionWith(b) returns has at most min(a.size(),
\* b.size()) elements, and the call leaves a and b as they were.
C9_IntersectionBound ==
    last.op = "intersectionWith" /\ ~crashed =>
        /\ Len(res) <= Smaller(Len(set[last.x]), Len(set[last.y]))
        /\ set = pre

\* An intersection of sets of different sizes that dropped an element and
\* kept one.
C9_Witness ==
    /\ last.op = "intersectionWith"
    /\ last.y = "b"
    /\ ~crashed
    /\ Len(set["a"]) = 3
    /\ Len(set["b"]) = 2
    /\ Len(res) = 1

-----------------------------------------------------------------------------
(* C10 *)

\* C10 as claimed: for all sets a and b, duplicates included,
\* a.contains(b, strict = true) is true iff a == b.
C10_StrictIsEqual ==
    last.op = "contains" /\ last.flag =>
        (ret <=> operator_eq(EQ, set[last.x], set[last.y]))

\* C10 amended: for all sets a and b of the same size, and for all sets a
\* and b that hold no two equivalent elements, a.contains(b, strict = true)
\* is true iff a == b.
C10_StrictIsEqualNoDup ==
    last.op = "contains" /\ last.flag /\
    (Len(set[last.x]) = Len(set[last.y]) \/ (NoDup(EQ, set[last.x]) /\ NoDup(EQ, set[last.y]))) =>
        (ret <=> operator_eq(EQ, set[last.x], set[last.y]))

\* A strict containment that holds between two duplicate-free sets stored
\* in different orders.
C10_Witness ==
    /\ last.op = "contains"
    /\ last.flag
    /\ last.y = "b"
    /\ ret = TRUE
    /\ NoDup(EQ, set["a"])
    /\ Len(set["a"]) = 3
    /\ set["a"] # set["b"]

-----------------------------------------------------------------------------
(* C11 *)

\* C11: a == b is true exactly when a and b have the same size and each
\* holds every element of the other (so the insertion order does not
\* matter), and a != b is the negation of a == b.
C11_Equality ==
    /\ last.op = "==" =>
           (ret <=> SameSizeAndMembers(EQ, set[last.x], set[last.y]))
    /\ last.op = "!=" =>
           (ret <=> ~SameSizeAndMembers(EQ, set[last.x], set[last.y]))

\* Two sets of the same three values, inserted uniquely in different
\* orders, have compared equal.
C11_Witness ==
    /\ last.op = "=="
    /\ last.y = "b"
    /\ ret = TRUE
    /\ NoDup(EQ, set["a"])
    /\ NoDup(EQ, set["b"])
    /\ Len(set["a"]) = 3
    /\ set["a"] # set["b"]

-----------------------------------------------------------------------------
(* C12 *)

\* C12: for a set of n pairwise non-equivalent elements and 1 <= k <= n,
\* combinations(k) returns without throwing, and what it returns are exactly
\* the k-element sub-selections of the stored elements: C(n, k) members,
\* each of k distinct stored elements, no two with the same elements, every
\* k-element subset among them; combinations(n) returns one member, equal
\* to the set itself.
C12_Combinations ==
    last.op = "combinations" /\ NoDup(EQ, set[last.x])
    /\ 1 <= last.v /\ last.v <= Len(set[last.x]) =>
        /\ ~crashed
        /\ ~thrown
        /\ Len(sets) = Binomial(Len(set[last.x]), last.v)
        /\ \A i \in 1..Len(sets) :
              /\ Len(sets[i]) = last.v
              /\ NoDup(EQ, sets[i])
              /\ Range(sets[i]) \subseteq Range(set[last.x])
        /\ \A i, j \in 1..Len(sets) : i # j => Range(sets[i]) # Range(sets[j])
        /\ \A S \in SUBSET Range(set[last.x]) :
              Cardinality(S) = last.v => \E i \in 1..Len(sets) : Range(sets[i]) = S
        /\ (last.v = Len(set[last.x]) =>
              Len(sets) = 1 /\ operator_eq(EQ, sets[1], set[last.x]))

\* combinations(2) of a three-element set has returned its three pairs.
C12_Witness ==
    /\ last.op = "combinations"
    /\ last.v = 2
    /\ NoDup(EQ, set["a"])
    /\ Len(set["a"]) = 3
    /\ Len(sets) = 3

-----------------------------------------------------------------------------
(* C13 *)

\* C13: for every set, the empty one included, combinations(0) completes
\* and returns exactly one combination, the empty set, and makes no access
\* outside the index vector or the backing vector.
C13_CombinationsZero ==
    last.op = "combinations" /\ last.v = 0 =>
        /\ ~crashed
        /\ ~thrown
        /\ sets = << <<>> >>
        /\ ~combinations(EQ, set[last.x], 0).invalid

-----------------------------------------------------------------------------
(* C14 *)

\* C14: combinations(k) throws std::out_of_range exactly when k is greater
\* than the size of the set; when it throws it has enumerated nothing, and
\* the set is as it was whatever k is.
C14_OutOfRange ==
    last.op = "combinations" =>
        /\ thrown <=> last.v > Len(pre[last.x])
        /\ thrown => sets = <<>> /\ ~crashed
        /\ set = pre

\* combinations(4) of a three-element set has thrown.
C14_Witness ==
    /\ last.op = "combinations"
    /\ Len(set["a"]) = 3
    /\ last.v = 4
    /\ thrown

-----------------------------------------------------------------------------
(* C15 *)

\* C15, for operands that hold no two equivalent elements: if a and b are
\* not empty, every member of a * b is a two-element set of an x from a and
\* a y from b, and for every x from a and y from b some member holds x and
\* y; if a or b is empty, a * b is empty.
C15_Product ==
    last.op = "*" /\ NoDup(EQ, set[last.x]) /\ NoDup(EQ, set[last.y]) =>
        IF set[last.x] # <<>> /\ set[last.y] # <<>>
        THEN /\ \A i \in 1..Len(sets) :
                   /\ Len(sets[i]) = 2
                   /\ \E x \in Range(set[last.x]), y \in Range(set[last.y]) :
                         Holds(EQ, sets[i], x) /\ Holds(EQ, sets[i], y)
             /\ \A x \in Range(set[last.x]), y \in Range(set[last.y]) :
                   \E i \in 1..Len(sets) : Holds(EQ, sets[i], x) /\ Holds(EQ, sets[i], y)
        ELSE sets = <<>>

-----------------------------------------------------------------------------
(* C16 *)

\* C16: erase(v, all), when it returns: with all false it removes the first
\* stored element equivalent to v and returns 1, or returns 0 and changes
\* nothing if there is none; with all true it removes every stored element
\* equivalent to v, returns how many they were, and count(v) is 0
\* afterwards; in both modes the other elements keep their order.
C16_Erase ==
    last.op = "erase" /\ ~crashed =>
        IF ~last.flag
        THEN IF Holds(EQ, pre[last.x], last.v)
             THEN /\ ret = 1
                  /\ set[last.x] = vector_erase(pre[last.x],
                        CHOOSE i \in 1..Len(pre[last.x]) :
                            /\ pre[last.x][i] = last.v
                            /\ \A j \in 1..(i - 1) : pre[last.x][j] # last.v)
             ELSE ret = 0 /\ set = pre
        ELSE /\ set[last.x] = Without(EQ, pre[last.x], <<last.v>>)
             /\ ret = Len(pre[last.x]) - Len(set[last.x])
             /\ count(EQ, set[last.x], last.v) = 0

-----------------------------------------------------------------------------
(* C17 *)

-----------------------------------------------------------------------------
(* C18 *)

\* C18: after move construction or move assignment from s into d, d holds
\* exactly what s held and s is empty; a later insert into the empty s
\* gives it size 1, and an insert into either of the two leaves the other
\* as it was.
C18_Move ==
    /\ last.op = "move" =>
           set[last.x] = pre[last.y] /\ set[last.y] = <<>>
    /\ last.op = "insert" /\ (\E n \in Names : origin[n] = "moved_from") =>
           /\ pre[last.x] = <<>> => Len(set[last.x]) = 1
           /\ \A n \in Names \ {last.x} : set[n] = pre[n]

\* a was moved into b, and an insert into a has then given a size 1 and
\* left b with the two elements it took over.
C18_Witness ==
    /\ last.op = "insert"
    /\ last.x = "a"
    /\ origin["a"] = "moved_from"
    /\ origin["b"] = "move"
    /\ pre["a"] = <<>>
    /\ Len(set["a"]) = 1
    /\ Len(set["b"]) = 2

-----------------------------------------------------------------------------
(* C19 *)

\* C19: for sorted OrderedSets a and b, what a + b, a + value, a - b and
\* a.intersectionWith(b) return, and what a += b and a -= b leave in a, is
\* sorted: no element is less than the one before it.
C19_AlgebraSorted ==
    ~crashed /\ Sorted(opre) /\ Sorted(oarg) => Sorted(oset) /\ Sorted(res)

-----------------------------------------------------------------------------
(* C20 *)

\* C20: if an element stored in an OrderedSet is mutually non-less with v,
\* then find(v) returns the position of the first such element, count(v) is
\* at least 1, contains(v) is true, and insert(v) in unique mode leaves the
\* vector as it was, whether or not v is the stored value itself.
C20_OrderEquivalence ==
    Holds("ComparatorEqual", opre, last.v) =>
        /\ last.op = "find" =>
               /\ ret \in 1..Len(oset)
               /\ ComparatorEqual(oset[ret], last.v)
               /\ \A j \in 1..(ret - 1) : ~ComparatorEqual(oset[j], last.v)
        /\ last.op = "count" => ret >= 1
        /\ last.op = "contains" => ret = TRUE
        /\ last.op = "insert" /\ last.flag => oset = opre

\* A unique insert of a value that is not stored, but is mutually non-less
\* with a stored one, has left the vector alone.
C20_Witness ==
    /\ last.op = "insert"
    /\ last.flag
    /\ Len(opre) = 2
    /\ \A i \in 1..Len(opre) : opre[i] # last.v
    /\ \E i \in 1..Len(opre) : ComparatorEqual(opre[i], last.v)
    /\ oset = opre

\* C21: in a set of sets, count(x) is the number of stored sets that are
\* equal to x as sets, whatever the order their elements were inserted in;
\* the stored sets being pairwise different, that number is 0 or 1.
C21_NestedCount ==
    last.op = "nested_count" =>
        /\ ret = Cardinality({i \in 1..Len(sets) : Range(sets[i]) = Range(set["a"])})
        /\ ret <= 1

\* count finds a stored set whose elements are stored in another order than
\* those of the set asked for, and finds no other.
C21_Witness ==
    /\ last.op = "nested_count"
    /\ Len(sets) = 2
    /\ ret = 1
    /\ \E i \in 1..2 : Range(sets[i]) = Range(set["a"]) /\ sets[i] # set["a"]
                        /\ Len(set["a"]) = 3

\* The decimal texts of the elements of s, sep between neighbours.
RECURSIVE Joined(_, _)
Joined(s, sep) ==
    IF Len(s) = 0 THEN <<>>
    ELSE IF Len(s) = 1 THEN toString(s[1])
    ELSE toString(s[1]) \o sep \o Joined(Tail(s), sep)

ColonsOf(f) == {i \in 1..Len(f) : f[i] = ":"}

FlagsOf(f) ==
    IF ColonsOf(f) = {} THEN f
    ELSE SubSeq(f, 1, (CHOOSE i \in ColonsOf(f) : \A j \in ColonsOf(f) : i <= j) - 1)

SeparatorOf(f) ==
    IF ColonsOf(f) = {} THEN <<>>
    ELSE SubSeq(f, (CHOOSE i \in ColonsOf(f) : \A j \in ColonsOf(f) : i <= j) + 1, Len(f))

\* What the last flag of the pair on/off says, default if neither occurs.
LastFlag(flags, on, off, default) ==
    LET at == {i \in 1..Len(flags) : flags[i] \in {on, off}}
    IN  IF at = {} THEN default
        ELSE flags[CHOOSE i \in at : \A j \in at : j <= i] = on

\* C23: parsing '<flags>:<separator>' throws a format error exactly when
\* there is a third ':'-separated segment or a flag character other than
\* c, C, t, T; otherwise the last of c/C decides compact, the last of t/T
\* decides trailingSeparator, and a non-empty second segment replaces the
\* separator while an absent or empty one keeps ','.
C23_Parse ==
    last.op = "parse" =>
        /\ thrown <=> \/ Cardinality(ColonsOf(fmt)) >= 2
                      \/ \E i \in 1..Len(FlagsOf(fmt)) :
                            FlagsOf(fmt)[i] \notin {"c", "C", "t", "T"}
        /\ ~thrown =>
              /\ options.compact = LastFlag(FlagsOf(fmt), "c", "C", TRUE)
              /\ options.trailingSeparator = LastFlag(FlagsOf(fmt), "t", "T", FALSE)
              /\ options.separator = IF SeparatorOf(fmt) # <<>> THEN SeparatorOf(fmt)
                                     ELSE <<",">>

\* A specifier whose flags say c and then C has been parsed, and it has a
\* separator segment: compact is off and the separator replaced.
C23_Witness ==
    /\ last.op = "parse"
    /\ ~thrown
    /\ Len(fmt) >= 2 /\ fmt[1] = "c" /\ fmt[2] = "C"
    /\ ~options.compact

\* C24: a.subseteq(b) is true iff every element of a is contained in b;
\* a.subset(b) iff a.subseteq(b) and a != b; a.superseteq(b) iff every
\* element of b is contained in a; so a.subseteq(b) agrees with
\* b.superseteq(a).
C24_Containment ==
    LET a == set[last.x]
        b == set[last.y]
    IN  /\ last.op = "subseteq" =>
              /\ ret = (\A i \in 1..Len(a) : Holds(EQ, b, a[i]))
              /\ ret = superseteq(EQ, b, a)
        /\ last.op = "subset" =>
              ret = ((\A i \in 1..Len(a) : Holds(EQ, b, a[i])) /\ operator_ne(EQ, a, b))
        /\ last.op = "superseteq" =>
              /\ ret = (\A i \in 1..Len(b) : Holds(EQ, a, b[i]))
              /\ ret = subseteq(EQ, b, a)

\* a is a proper part of b and the two are stored in unrelated orders:
\* a.subseteq(b) has answered true.
C24_Witness ==
    /\ last.op = "subseteq"
    /\ set["a"] = <<3, 1>>
    /\ set["b"] = <<1, 2, 3>>
    /\ last.y = "b"
    /\ ret = TRUE

\* C25: a.superset(b) returns, from the frame of the call, true iff a holds
\* every element of b and a != b; it neither calls itself anew nor stops
\* the process.
C25_Superset ==
    LET a == set[last.x]
        b == set[last.y]
    IN  /\ last.op = "superset" =>
              ret = ((\A i \in 1..Len(b) : Holds(EQ, a, b[i])) /\ operator_ne(EQ, a, b))
        /\ last.op = "superset_call" => (steps <= 1 /\ ~crashed)

\* The positions where two vectors of one length hold different values.
Differ(s, u) == {i \in 1..Len(s) : s[i] # u[i]}

\* C26: a < b is a.size() < b.size() when the sizes differ; on equal sizes
\* the first position in storage order where the elements differ decides,
\* and with no such position the result is false.  So a < a is false and
\* a < b and b < a are never both true.
C26_Less ==
    LET a == set[last.x]
        b == set[last.y]
    IN  last.op = "lt" =>
          /\ Len(a) # Len(b) => ret = (Len(a) < Len(b))
          /\ (Len(a) = Len(b) /\ Differ(a, b) = {}) => ret = FALSE
          /\ (Len(a) = Len(b) /\ Differ(a, b) # {}) =>
                LET i == CHOOSE i \in Differ(a, b) : \A j \in Differ(a, b) : i <= j
                IN  ret = (a[i] < b[i])
          /\ last.x = last.y => ret = FALSE
          /\ ~(ret /\ operator_lt(b, a))

\* Two sets that are == but stored in different orders, and a < b is true.
C26_Witness ==
    /\ last.op = "lt"
    /\ last.y = "b"
    /\ operator_eq(EQ, set["a"], set["b"])
    /\ NoDup(EQ, set["a"])
    /\ Len(set["a"]) = 3
    /\ ret = TRUE

\* The first stored element of each equivalence class, in storage order.
FirstOfEach(C, s) ==
    LET keep == {i \in 1..Len(s) : \A j \in 1..(i - 1) : ~equal_compare(C, s[j], s[i])}
        RECURSIVE pick(_)
        pick(i) == IF i > Len(s) THEN <<>>
                   ELSE (IF i \in keep THEN <<s[i]>> ELSE <<>>) \o pick(i + 1)
    IN  pick(1)

\* C27 as stated: the result of deepCopy(source) == source, for every
\* source.
C27_DeepCopyEqual ==
    last.op = "deepCopy" => operator_eq(EQ, set[last.x], pre[last.y])

\* C27 amended: deepCopy(source) holds the first element of each
\* equivalence class of source in source's order, so it and source contain
\* each other; for a source without duplicates it is the vector the copy
\* constructor gives and == source; and an insert or erase on either set
\* afterwards leaves the other as it was.
C27_DeepCopy ==
    /\ last.op = "deepCopy" =>
          LET source == pre[last.y]
              result == set[last.x]
          IN  /\ result = FirstOfEach(EQ, source)
              /\ set[last.y] = source
              /\ contains(EQ, result, source, TRUE)
              /\ NoDup(EQ, source) =>
                    /\ result = vector_copy(<<>>, source).data
                    /\ operator_eq(EQ, result, source)
    /\ (last.op \in {"insert", "erase"} /\ (\E n \in Names : origin[n] = "deep")) =>
          \A n \in Names \ {last.x} : set[n] = pre[n]

\* b is the deep copy of an a that holds a duplicate, and an insert into b
\* has then grown b alone.
C27_Witness ==
    /\ last.op = "insert"
    /\ last.x = "b"
    /\ origin["b"] = "deep"
    /\ origin["a"] = "list"
    /\ set["a"] = <<1, 2, 1>>
    /\ pre["b"] = <<1, 2>>
    /\ set["b"] = <<1, 2, 3>>

\* C28: after unique() no two stored elements are equivalent: what remains
\* is the first-seen element of each equivalence class, in first-seen
\* order.
C28_Unique ==
    last.op = "unique" =>
        /\ NoDup(EQ, set[last.x])
        /\ set[last.x] = FirstOfEach(EQ, pre[last.x])

\* C30: OrderedSet::unique() on a sorted sequence returns with every later
\* element equivalent to an earlier one removed: count(v) <= 1 for every
\* v, every equivalence class that was stored still is, and the sequence
\* is sorted.
C30_OrderedUnique ==
    last.op = "unique" =>
        /\ ~crashed
        /\ oset = FirstOfEach("ComparatorEqual", opre)
        /\ \A v \in Values : ordered_count(oset, v) <= 1
        /\ \A v \in Values : Holds("ComparatorEqual", opre, v)
                                 => Holds("ComparatorEqual", oset, v)
        /\ Sorted(oset)

\* Index vector c comes before d in lexicographic order.
LexLess(c, d) ==
    \E i \in 1..Len(c) : c[i] < d[i] /\ \A j \in 1..(i - 1) : c[j] = d[j]

\* The positions of index vector c that can still advance in a set of
\* size n.
Advanceable(c, n) == {i \in 1..Len(c) : c[i] + 1 <= (n - 1) - (Len(c) - i)}

\* Every index vector a sub-selection is made from has k entries, strictly
\* ascending and within 0..n-1, and the first one is (0..k-1).
C29_Valid ==
    last.op \in {"combinations_select", "combinations_advance"} /\ last.v >= 1 =>
        /\ Len(counters) = last.v
        /\ \A i \in 1..Len(counters) : counters[i] \in 0..(Len(set["a"]) - 1)
        /\ \A i \in 1..(Len(counters) - 1) : counters[i] < counters[i + 1]
        /\ (last.op = "combinations_select" /\ steps = 0) =>
              counters = [i \in 1..last.v |-> i - 1]

\* An advance increments the rightmost position that can advance and sets
\* the positions to its right to consecutive values, which gives a
\* lexicographically larger vector; the enumeration ends when no position
\* can advance, at (n-k..n-1), after C(n,k) selections.
C29_Advance ==
    LET n == Len(set["a"])
        k == last.v
        P == Advanceable(counters, n)
    IN  (last.op = "combinations_advance" /\ k >= 1) =>
          /\ last'.op = "combinations_select" =>
                /\ P # {}
                /\ LET p == CHOOSE i \in P : \A j \in P : j <= i
                   IN  /\ \A j \in 1..(p - 1) : counters'[j] = counters[j]
                       /\ counters'[p] = counters[p] + 1
                       /\ \A j \in (p + 1)..k : counters'[j] = counters'[p] + (j - p)
                /\ LexLess(counters, counters')
          /\ last'.op = "combinations" =>
                /\ P = {}
                /\ counters = [i \in 1..k |-> n - k + i - 1]
                /\ steps = Binomial(n, k)
          /\ ~crashed'

\* An enumeration begun with 1 <= k <= n is finished.
C29_Done ==
    /\ last.op = "combinations"
    /\ ~thrown
    /\ steps = Binomial(Len(set["a"]), last.v)

\* C29: during combinations(k) with 1 <= k <= n every index vector a
\* sub-selection is made from is strictly ascending with entries in
\* 0..n-1; each advance increments the rightmost index that can advance and
\* resets those to its right to consecutive values, so the vectors increase
\* lexicographically from (0..k-1) to (n-k..n-1); and the enumeration ends
\* after exactly C(n,k) selections.
C29_Enumeration ==
    /\ []C29_Valid
    /\ [][C29_Advance]_vars
    /\ (last.op = "combinations_select" /\ last.v >= 1) ~> C29_Done

\* combinations(3) of a five-element set has ended after its 10 selections.
C29_Witness ==
    /\ last.op = "combinations"
    /\ last.v = 3
    /\ Len(set["a"]) = 5
    /\ steps = 10
    /\ Len(sets) = 10

====
